---- MODULE Spec2Model ----
(***************************************************************************)
(* A model of the ginprom middleware: the policy configuration built from *)
(* functional options, path resolution for unmatched routes, the request  *)
(* size estimator, the four collectors and the per-request interceptor.   *)
(***************************************************************************)
EXTENDS Bags, FiniteSets, Integers, Sequences, TLC

VARIABLES
    conf,      \* the *config built by applyOpt(options...), shared by all requests
    metrics,   \* the MetricsCollection: one counter and three histograms
    req,       \* per request: the gin.Context and the handler's locals
    log,       \* history: the bag of completed requests, as they ended
    now,       \* logical clock read by time.Now() / time.Since()
    fnIn,      \* argument of a direct (in-package) function call
    fnOut      \* its result

vars == <<conf, metrics, req, log, now, fnIn, fnOut>>

-----------------------------------------------------------------------------
(* Bounds *)

NumReq == 2      \* requests served by one middleware instance
MaxOpts == 3     \* options passed to MiddlewareWithMetrics
MaxBody == 2     \* bytes in a request body

Reqs == 1..NumReq

-----------------------------------------------------------------------------
(* strconv.Itoa, as used for the status label *)

Digit(d) ==
    CASE d = 0 -> "0" [] d = 1 -> "1" [] d = 2 -> "2" [] d = 3 -> "3"
      [] d = 4 -> "4" [] d = 5 -> "5" [] d = 6 -> "6" [] d = 7 -> "7"
      [] d = 8 -> "8" [] d = 9 -> "9"

RECURSIVE Itoa(_)
Itoa(n) ==
    IF n < 0 THEN "-" \o Itoa(-n)
    ELSE IF n < 10 THEN Digit(n)
    ELSE Itoa(n \div 10) \o Digit(n % 10)

-----------------------------------------------------------------------------
(* Policy functions.  A func value is modelled by a record naming which     *)
(* function it is; calling it is FilterCall / AggregatorCall.               *)

\* defaultConf's filterPath: func(string, string) bool { return false }
DefaultFilter == [kind |-> "default", routes |-> {}]

\* the closure WithFilterRoutes installs, over its routeToFilter map
RoutesFilter(routes) == [kind |-> "routes", routes |-> routes]

\* a caller-supplied filter: func(route, path string) bool { return route ==
\* "/skip" }, as in TestWithFilterPath_Custom
SkipFilter == [kind |-> "custom", routes |-> {}]

\* a nil func(string, string) bool; calling it panics, and no specification
\* below serves a request under a config that holds one
NilFilter == [kind |-> "nil", routes |-> {}]

\* a caller-supplied filter on the path: func(route, path string) bool {
\* return strings.HasPrefix(path, "/internal") }, as in the README
PrefixFilter == [kind |-> "prefix", routes |-> {}]

\* strings.HasPrefix(s, prefix), for the strings that occur here
PathSuffixes == {"", "/stats", "/ghost", "/:id", "/42"}
HasPrefix(s, prefix) == \E rest \in PathSuffixes : s = prefix \o rest

FilterCall(f, route, path) ==
    CASE f.kind = "default" -> FALSE
      [] f.kind = "routes"  -> route \in f.routes
      [] f.kind = "custom"  -> route = "/skip"
      [] f.kind = "prefix"  -> HasPrefix(path, "/internal")

DefaultAggregator == [kind |-> "default", label |-> ""]

\* a caller-supplied aggregator returning a fixed label (as in
\* TestMiddlewareWithMetrics_CustomPathAggregator)
ConstAggregator(label) == [kind |-> "const", label |-> label]

defaultPathAggregator(route, path, statusCode) ==
    IF route = ""
    THEN IF statusCode >= 400 /\ statusCode < 500 THEN "path_4xx"
         ELSE IF statusCode >= 500 THEN "path_5xx"
         ELSE "missing_route"
    ELSE route

\* a nil func(string, string, int) string
NilAggregator == [kind |-> "nil", label |-> ""]

\* a caller-supplied aggregator that reads its arguments:
\* fmt.Sprintf("%s_%d", route, status), as in TestWithPathAggregator_Custom
FormatAggregator == [kind |-> "format", label |-> ""]

AggregatorCall(a, route, path, statusCode) ==
    CASE a.kind = "default" -> defaultPathAggregator(route, path, statusCode)
      [] a.kind = "const"   -> a.label
      [] a.kind = "format"  -> route \o "_" \o Itoa(statusCode)

-----------------------------------------------------------------------------
(* config and the options *)

defaultConf ==
    [ recordRequestSize       |-> TRUE,
      recordResponseSize      |-> TRUE,
      recordDuration          |-> TRUE,
      filterPath              |-> DefaultFilter,
      pathAggregator          |-> DefaultAggregator,
      aggregateStatusCode     |-> FALSE,
      markUnmatchedRoutes     |-> FALSE,
      unmatchedRoutesGrouping |-> FALSE,
      handleUnmatchedRoutes   |-> TRUE,
      groupUnmatchedRoutes    |-> TRUE ]

WithRecordRequestSize(c, record)    == [c EXCEPT !.recordRequestSize = record]
WithRecordResponseSize(c, record)   == [c EXCEPT !.recordResponseSize = record]
WithRecordDuration(c, record)       == [c EXCEPT !.recordDuration = record]
WithFilterPath(c, filter)           == [c EXCEPT !.filterPath = filter]
WithPathAggregator(c, aggregator)   == [c EXCEPT !.pathAggregator = aggregator]
WithAggregateStatusCode(c, aggregate) == [c EXCEPT !.aggregateStatusCode = aggregate]
WithFilterRoutes(c, routes)         == [c EXCEPT !.filterPath = RoutesFilter(routes)]
WithUnmatchedRouteHandling(c, enabled) == [c EXCEPT !.handleUnmatchedRoutes = enabled]
WithUnmatchedRouteMarking(c, enabled)  == [c EXCEPT !.markUnmatchedRoutes = enabled]

WithUnmatchedRouteGrouping(c, enabled) ==
    [c EXCEPT !.unmatchedRoutesGrouping = enabled]

\* An Option value: which constructor built it, and its argument.
Opt(name, arg) == [name |-> name, arg |-> arg]

\* option(conf): the closure an Option holds, applied to the config
ApplyOption(o, c) ==
    CASE o.name = "WithRecordRequestSize"      -> WithRecordRequestSize(c, o.arg)
      [] o.name = "WithRecordResponseSize"     -> WithRecordResponseSize(c, o.arg)
      [] o.name = "WithRecordDuration"         -> WithRecordDuration(c, o.arg)
      [] o.name = "WithFilterPath"             -> WithFilterPath(c, o.arg)
      [] o.name = "WithPathAggregator"         -> WithPathAggregator(c, o.arg)
      [] o.name = "WithAggregateStatusCode"    -> WithAggregateStatusCode(c, o.arg)
      [] o.name = "WithFilterRoutes"           -> WithFilterRoutes(c, o.arg)
      [] o.name = "WithUnmatchedRouteHandling" -> WithUnmatchedRouteHandling(c, o.arg)
      [] o.name = "WithUnmatchedRouteMarking"  -> WithUnmatchedRouteMarking(c, o.arg)
      [] o.name = "WithUnmatchedRouteGrouping" -> WithUnmatchedRouteGrouping(c, o.arg)

RECURSIVE applyFrom_LastFirst(_, _)
applyFrom_LastFirst(options, c) ==
    IF options = <<>> THEN c
    ELSE ApplyOption(Head(options), applyFrom_LastFirst(Tail(options), c))

RECURSIVE applyFrom(_, _)
applyFrom(options, c) ==
    IF options = <<>> THEN c
    ELSE applyFrom(Tail(options), ApplyOption(Head(options), c))

applyOpt(options) == applyFrom(options, defaultConf)

-----------------------------------------------------------------------------
(* Path resolution *)

\* c is the gin.Context: c.fullPath is c.FullPath(), c.urlPath is
\* c.Request.URL.Path ("" also when Request or URL is nil)
getPathWithFallback(c) ==
    IF c.fullPath # "" THEN c.fullPath
    ELSE IF c.urlPath # "" THEN c.urlPath
    ELSE "/unknown"

getPathFromContext(c) == getPathWithFallback(c)

handleUnmatchedPath_RawWhenDisabled(cnf, routePattern, path) ==
    IF routePattern = ""
    THEN IF ~cnf.handleUnmatchedRoutes THEN <<path, path>>
         ELSE IF cnf.groupUnmatchedRoutes
         THEN <<"/unmatched/*", path>>
         ELSE <<"/unmatched" \o path, path>>
    ELSE <<routePattern, path>>

handleUnmatchedPath_NeverGroups(cnf, routePattern, path) ==
    IF routePattern = "" /\ cnf.handleUnmatchedRoutes
    THEN <<"/unmatched" \o path, path>>
    ELSE <<routePattern, path>>

handleUnmatchedPath_Swapped(cnf, routePattern, path) ==
    IF routePattern = "" /\ cnf.handleUnmatchedRoutes
    THEN IF cnf.groupUnmatchedRoutes
         THEN <<"/unmatched" \o path, path>>
         ELSE <<"/unmatched/*", path>>
    ELSE <<routePattern, path>>

handleUnmatchedPath_GroupsPathToo(cnf, routePattern, path) ==
    IF routePattern = "" /\ cnf.handleUnmatchedRoutes
    THEN IF cnf.groupUnmatchedRoutes
         THEN <<"/unmatched/*", "/unmatched/*">>
         ELSE <<"/unmatched" \o path, "/unmatched" \o path>>
    ELSE <<routePattern, path>>

handleUnmatchedPath_NeverHandles(cnf, routePattern, path) == <<routePattern, path>>

\* returns <<routePattern, path>>
handleUnmatchedPath(cnf, routePattern, path) ==
    IF routePattern = "" /\ cnf.handleUnmatchedRoutes
    THEN IF cnf.groupUnmatchedRoutes
         THEN <<"/unmatched/*", path>>
         ELSE <<"/unmatched" \o path, path>>
    ELSE <<routePattern, path>>

-----------------------------------------------------------------------------
(* Size estimator *)

\* An io.ReadCloser: the bytes still unread, whether reading them ends in an
\* I/O error instead of EOF, and which reader object it is.
NilBody == [nil |-> TRUE, data |-> <<>>, err |-> FALSE, reader |-> "none"]
OrigBody(data, err) == [nil |-> FALSE, data |-> data, err |-> err, reader |-> "orig"]

\* io.NopCloser(bytes.NewReader(buf.Bytes()))
BufferedBody(buf) == [nil |-> FALSE, data |-> buf, err |-> FALSE, reader |-> "buffer"]

\* io.Copy(&buf, body): drains the reader; n bytes reached the buffer
ioCopy(body) ==
    [n |-> Len(body.data), err |-> body.err, buf |-> body.data,
     body |-> [body EXCEPT !.data = <<>>]]

\* io.ReadAll(body): what a later reader of the body gets
ioReadAll(body) == [data |-> body.data, err |-> body.err]

RECURSIVE ValuesSize(_)
ValuesSize(values) ==
    IF values = <<>> THEN 0
    ELSE Len(Head(values)) + 2 + ValuesSize(Tail(values))

RECURSIVE HeaderSize(_, _)
HeaderSize(header, names) ==
    IF names = {} THEN 0
    ELSE LET name == CHOOSE n \in names : TRUE
         IN  Len(name) + 2 + ValuesSize(header[name])
             + HeaderSize(header, names \ {name})

calculateBodySizeStream_LeavesDrained(r) ==
    IF r.Body.nil THEN [size |-> 0, err |-> FALSE, r |-> r]
    ELSE LET cp == ioCopy(r.Body)
         IN  IF cp.err
             THEN [size |-> 0, err |-> TRUE, r |-> [r EXCEPT !.Body = cp.body]]
             ELSE [size |-> cp.n, err |-> FALSE, r |-> [r EXCEPT !.Body = cp.body]]

\* returns [size, err, r]: r is the request afterwards (Body may be replaced)
calculateBodySizeStream(r) ==
    IF r.Body.nil THEN [size |-> 0, err |-> FALSE, r |-> r]
    ELSE LET cp == ioCopy(r.Body)
         IN  IF cp.err
             THEN [size |-> 0, err |-> TRUE, r |-> [r EXCEPT !.Body = cp.body]]
             ELSE [size |-> cp.n, err |-> FALSE,
                   r |-> [r EXCEPT !.Body = BufferedBody(cp.buf)]]

calculateRequestSize(r) ==
    LET head == (Len(r.Method) + 1) + (Len(r.URL) + 1) + (Len(r.Proto) + 2)
                + HeaderSize(r.Header, DOMAIN r.Header) + 2
    IN  IF r.ContentLength > 0
        THEN [size |-> head + r.ContentLength, err |-> FALSE, r |-> r]
        ELSE IF r.ContentLength = 0
        THEN [size |-> head, err |-> FALSE, r |-> r]
        ELSE IF ~r.Body.nil
        THEN LET b == calculateBodySizeStream(r)
             IN  IF b.err THEN [size |-> 0, err |-> TRUE, r |-> b.r]
                 ELSE [size |-> head + b.size, err |-> FALSE, r |-> b.r]
        ELSE [size |-> head, err |-> FALSE, r |-> r]

getRequestSize_AlwaysMeasures(r) ==
    LET s == calculateRequestSize([r EXCEPT !.ContentLength = -1])
    IN  [size |-> IF s.err THEN 0 ELSE s.size,
         r |-> [s.r EXCEPT !.ContentLength = r.ContentLength]]

getRequestSize_PartialOnError(r) ==
    IF r.ContentLength # -1
    THEN [size |-> r.ContentLength, r |-> r]
    ELSE LET s == calculateRequestSize(r)
         IN  IF s.err THEN [size |-> Len(r.Body.data), r |-> s.r]
             ELSE [size |-> s.size, r |-> s.r]

\* returns [size, r]
getRequestSize(r) ==
    IF r.ContentLength # -1
    THEN [size |-> r.ContentLength, r |-> r]
    ELSE LET s == calculateRequestSize(r)
         IN  IF s.err THEN [size |-> 0, r |-> s.r]
             ELSE [size |-> s.size, r |-> s.r]

computeResponseSize(c) == IF c.Writer.nil THEN 0 ELSE c.Writer.size

-----------------------------------------------------------------------------
(* Collectors.  A CounterVec is the bag of label tuples it was incremented   *)
(* with; a HistogramVec is the bag of <<label tuple, value>> observations.   *)

NewMetrics ==
    [ TotalRequests |-> EmptyBag, ResponseSize |-> EmptyBag,
      RequestSize   |-> EmptyBag, Duration     |-> EmptyBag ]

\* vec.WithLabelValues(params...).Inc()
Inc_LostUpdate(vec, params) == (vec (-) SetToBag({params})) (+) SetToBag({params})

Inc(vec, params) == vec (+) SetToBag({params})

\* vec.WithLabelValues(params...).Observe(v)
Observe(vec, params, v) == vec (+) SetToBag({<<params, v>>})

recordRequestMetricsWithCollection_CounterGated(cnf, c, params, start, m, t) ==
    LET m1 == IF cnf.recordResponseSize
              THEN [m EXCEPT !.TotalRequests = Inc(@, params),
                             !.ResponseSize = Observe(@, params, computeResponseSize(c))]
              ELSE m
        rs == getRequestSize(c.Request)
        m3 == IF cnf.recordRequestSize
              THEN [m1 EXCEPT !.RequestSize = Observe(@, params, rs.size)]
              ELSE m1
        c3 == IF cnf.recordRequestSize THEN [c EXCEPT !.Request = rs.r] ELSE c
        m4 == IF cnf.recordDuration
              THEN [m3 EXCEPT !.Duration = Observe(@, params, t - start)]
              ELSE m3
    IN  [metrics |-> m4, c |-> c3]

recordRequestMetricsWithCollection_FlagsSwapped(cnf, c, params, start, m, t) ==
    LET m1 == [m EXCEPT !.TotalRequests = Inc(@, params)]
        m2 == IF cnf.recordRequestSize
              THEN [m1 EXCEPT !.ResponseSize = Observe(@, params, computeResponseSize(c))]
              ELSE m1
        rs == getRequestSize(c.Request)
        m3 == IF cnf.recordResponseSize
              THEN [m2 EXCEPT !.RequestSize = Observe(@, params, rs.size)]
              ELSE m2
        c3 == IF cnf.recordResponseSize THEN [c EXCEPT !.Request = rs.r] ELSE c
        m4 == IF cnf.recordDuration
              THEN [m3 EXCEPT !.Duration = Observe(@, params, t - start)]
              ELSE m3
    IN  [metrics |-> m4, c |-> c3]

\* returns [metrics, c]; t is the clock at the call
recordRequestMetricsWithCollection(cnf, c, params, start, m, t) ==
    LET m1 == [m EXCEPT !.TotalRequests = Inc(@, params)]
        m2 == IF cnf.recordResponseSize
              THEN [m1 EXCEPT !.ResponseSize = Observe(@, params, computeResponseSize(c))]
              ELSE m1
        rs == getRequestSize(c.Request)
        m3 == IF cnf.recordRequestSize
              THEN [m2 EXCEPT !.RequestSize = Observe(@, params, rs.size)]
              ELSE m2
        c3 == IF cnf.recordRequestSize THEN [c EXCEPT !.Request = rs.r] ELSE c
        m4 == IF cnf.recordDuration
              THEN [m3 EXCEPT !.Duration = Observe(@, params, t - start)]
              ELSE m3
    IN  [metrics |-> m4, c |-> c3]

LabelTuple_NeverAggregates(c, cnf, route, path) ==
    <<Itoa(c.Writer.status), c.Request.Method,
      AggregatorCall(cnf.pathAggregator, route, path, c.Writer.status)>>

LabelTuple_AggregatesMatchedRoute(c, cnf, route, path) ==
    <<IF cnf.aggregateStatusCode
      THEN Itoa(c.Writer.status \div 100) \o "xx"
      ELSE Itoa(c.Writer.status),
      c.Request.Method,
      AggregatorCall(cnf.pathAggregator, c.fullPath, path, c.Writer.status)>>

LabelTuple_RawPath(c, cnf, route, path) ==
    <<IF cnf.aggregateStatusCode
      THEN Itoa(c.Writer.status \div 100) \o "xx"
      ELSE Itoa(c.Writer.status),
      c.Request.Method,
      c.urlPath>>

\* the label tuple: status_code, method, path
LabelTuple(c, cnf, route, path) ==
    LET statusCode == IF cnf.aggregateStatusCode
                      THEN Itoa(c.Writer.status \div 100) \o "xx"
                      ELSE Itoa(c.Writer.status)
        aggregatePath == AggregatorCall(cnf.pathAggregator, route, path, c.Writer.status)
    IN  <<statusCode, c.Request.Method, aggregatePath>>

handleMetricsWithCollection(c, cnf, route, path, start, m, t) ==
    recordRequestMetricsWithCollection(cnf, c, LabelTuple(c, cnf, route, path), start, m, t)

-----------------------------------------------------------------------------
(* The requests and downstream handlers the interceptor is driven with *)

NoHeader == [n \in {} |-> <<>>]

NewRequest(method, url, contentLength, body) ==
    [Method |-> method, URL |-> url, Proto |-> "HTTP/1.1", Header |-> NoHeader,
     ContentLength |-> contentLength, Body |-> body]

\* gin's responseWriter before anything is written: defaultStatus, noWritten
NewWriter == [nil |-> FALSE, status |-> 200, size |-> -1]

NewContext(fullPath, request) ==
    [fullPath |-> fullPath, urlPath |-> request.URL, Request |-> request,
     Writer |-> NewWriter]

\* /users/:id is the registered route; nothing else matches
Incoming ==
    { NewContext("/users/:id", NewRequest("GET", "/users/42", 0, OrigBody(<<>>, FALSE))),
      NewContext("",           NewRequest("GET", "/ghost", 0, OrigBody(<<>>, FALSE))),
      NewContext("",           NewRequest("POST", "/random/url", -1, OrigBody(<<1, 2>>, FALSE))) }

\* What the rest of the chain does inside c.Next(): the status and size it
\* leaves in c.Writer, whether it reads the request body, whether it panics.
Downstreams ==
    { [status |-> 200, size |-> 11, readsBody |-> TRUE,  panics |-> FALSE],
      [status |-> 404, size |-> -1, readsBody |-> FALSE, panics |-> FALSE],
      [status |-> 500, size |-> -1, readsBody |-> FALSE, panics |-> TRUE] }

\* The options a middleware is installed with; MiddlewareWithMetrics keeps
\* only the config applyOpt builds from them
Options ==
    { Opt("WithRecordRequestSize", FALSE),
      Opt("WithRecordResponseSize", FALSE),
      Opt("WithRecordDuration", FALSE),
      Opt("WithAggregateStatusCode", TRUE),
      Opt("WithFilterRoutes", {"/users/:id"}),
      Opt("WithPathAggregator", ConstAggregator("/aggregated")),
      Opt("WithUnmatchedRouteHandling", TRUE),
      Opt("WithUnmatchedRouteHandling", FALSE),
      Opt("WithUnmatchedRouteGrouping", TRUE),
      Opt("WithUnmatchedRouteGrouping", FALSE) }

OptionLists == UNION { [1..n -> Options] : n \in 0..MaxOpts }

-----------------------------------------------------------------------------
(* The interceptor: the gin.HandlerFunc MiddlewareWithMetrics returns *)

NoContext == NewContext("", NewRequest("", "", 0, NilBody))

Idle ==
    [ pc |-> "idle", c |-> NoContext, route |-> "", path |-> "", start |-> 0,
      skip |-> FALSE, panicked |-> FALSE,
      \* history, not program state: whether c.Next() ran and the clock when
      \* it returned; how often, with which labels and at which clock the
      \* request was recorded
      ran |-> FALSE, returned |-> 0, recorded |-> 0, params |-> <<>>,
      observed |-> 0 ]

\* the handler has returned; its context and locals are gone
Gone == [Idle EXCEPT !.pc = "done"]

NoCall == [fn |-> "none"]

Init ==
    /\ conf \in { applyOpt(options) : options \in OptionLists }
    /\ metrics = NewMetrics
    /\ req = [r \in Reqs |-> Idle]
    /\ log = EmptyBag
    /\ now = 0
    /\ fnIn = NoCall
    /\ fnOut = NoCall

Enter_NeverSkips(r, c) ==
    /\ req[r].pc = "idle"
    /\ IF r = 1 THEN TRUE ELSE req[r - 1].pc # "idle"
    /\ LET route0 == c.fullPath
           path0  == getPathFromContext(c)
           rp     == handleUnmatchedPath(conf, route0, path0)
       IN  req' = [req EXCEPT ![r] =
                     [@ EXCEPT !.pc = "next", !.c = c, !.start = now,
                               !.route = rp[1], !.path = rp[2],
                               !.skip = FALSE]]
    /\ UNCHANGED <<conf, metrics, log, now, fnIn, fnOut>>

\* The handler up to its call of c.Next(), on either branch.  Requests are
\* numbered in the order they arrive.
Enter(r, c) ==
    /\ req[r].pc = "idle"
    /\ IF r = 1 THEN TRUE ELSE req[r - 1].pc # "idle"
    /\ LET route0 == c.fullPath
           path0  == getPathFromContext(c)
           rp     == handleUnmatchedPath(conf, route0, path0)
       IN  req' = [req EXCEPT ![r] =
                     [@ EXCEPT !.pc = "next", !.c = c, !.start = now,
                               !.route = rp[1], !.path = rp[2],
                               !.skip = FilterCall(conf.filterPath, rp[1], rp[2])]]
    /\ UNCHANGED <<conf, metrics, log, now, fnIn, fnOut>>

\* c.Next(): the downstream handlers run.  On the filtered branch the
\* handler then returns (or the panic leaves it); otherwise the deferred
\* function is what runs next, on return and on panic alike.
Downstream(r, d) ==
    /\ req[r].pc = "next"
    /\ LET q == [req[r] EXCEPT
                    !.c.Writer = [@ EXCEPT !.status = d.status, !.size = d.size],
                    !.c.Request.Body.data = IF d.readsBody THEN <<>> ELSE @,
                    !.panicked = d.panics, !.ran = TRUE, !.returned = now]
       IN  IF q.skip
           THEN /\ req' = [req EXCEPT ![r] = Gone]
                /\ log' = log (+) SetToBag({[q EXCEPT !.pc = "done"]})
           ELSE /\ req' = [req EXCEPT ![r] = [q EXCEPT !.pc = "deferred"]]
                /\ log' = log
    /\ UNCHANGED <<conf, metrics, now, fnIn, fnOut>>

Finalize_SkipsOnPanic(r) ==
    /\ req[r].pc = "deferred"
    /\ LET q == req[r]
           h == handleMetricsWithCollection(q.c, conf, q.route, q.path, q.start, metrics, now)
       IN  IF q.panicked
           THEN /\ metrics' = metrics
                /\ log' = log (+) SetToBag({[q EXCEPT !.pc = "done"]})
           ELSE /\ metrics' = h.metrics
                /\ log' = log (+) SetToBag({
                       [q EXCEPT !.pc = "done", !.c = h.c, !.recorded = @ + 1,
                                 !.observed = now,
                                 !.params = LabelTuple(q.c, conf, q.route, q.path)]})
    /\ req' = [req EXCEPT ![r] = Gone]
    /\ UNCHANGED <<conf, now, fnIn, fnOut>>

Finalize_StartsClockLate(r) ==
    /\ req[r].pc = "deferred"
    /\ LET q == req[r]
           h == handleMetricsWithCollection(q.c, conf, q.route, q.path, now, metrics, now)
       IN  /\ metrics' = h.metrics
           /\ log' = log (+) SetToBag({
                  [q EXCEPT !.pc = "done", !.c = h.c, !.recorded = @ + 1,
                            !.observed = now,
                            !.params = LabelTuple(q.c, conf, q.route, q.path)]})
    /\ req' = [req EXCEPT ![r] = Gone]
    /\ UNCHANGED <<conf, now, fnIn, fnOut>>

\* the deferred call of handleMetricsWithCollection, after which the
\* handler is left
Finalize(r) ==
    /\ req[r].pc = "deferred"
    /\ LET q == req[r]
           h == handleMetricsWithCollection(q.c, conf, q.route, q.path, q.start, metrics, now)
       IN  /\ metrics' = h.metrics
           /\ log' = log (+) SetToBag({
                  [q EXCEPT !.pc = "done", !.c = h.c, !.recorded = @ + 1,
                            !.observed = now,
                            !.params = LabelTuple(q.c, conf, q.route, q.path)]})
    /\ req' = [req EXCEPT ![r] = Gone]
    /\ UNCHANGED <<conf, now, fnIn, fnOut>>

Next ==
    \/ \E r \in Reqs, c \in Incoming : Enter(r, c)
    \/ \E r \in Reqs, d \in Downstreams : Downstream(r, d)
    \/ \E r \in Reqs : Finalize(r)

Spec == Init /\ [][Next]_vars

-----------------------------------------------------------------------------
(* The same interceptor driven with a body whose read fails, with status    *)
(* codes of one class, and with an aggregator that reads its arguments.     *)

EdgeOptions ==
    { Opt("WithAggregateStatusCode", TRUE),
      Opt("WithUnmatchedRouteHandling", FALSE),
      Opt("WithPathAggregator", FormatAggregator) }

EdgeOptionLists == UNION { [1..n -> EdgeOptions] : n \in 0..MaxOpts }

\* the second request's body fails with an I/O error after its two bytes
IncomingEdge ==
    { NewContext("/users/:id", NewRequest("GET", "/users/42", 0, OrigBody(<<>>, FALSE))),
      NewContext("",           NewRequest("POST", "/upload", -1, OrigBody(<<1, 2>>, TRUE))) }

DownstreamsEdge ==
    { [status |-> 201, size |-> 5,  readsBody |-> FALSE, panics |-> FALSE],
      [status |-> 204, size |-> 0,  readsBody |-> TRUE,  panics |-> FALSE],
      [status |-> 404, size |-> -1, readsBody |-> FALSE, panics |-> FALSE] }

InitEdge ==
    /\ conf \in { applyOpt(options) : options \in EdgeOptionLists }
    /\ metrics = NewMetrics
    /\ req = [r \in Reqs |-> Idle]
    /\ log = EmptyBag
    /\ now = 0
    /\ fnIn = NoCall
    /\ fnOut = NoCall

NextEdge ==
    \/ \E r \in Reqs, c \in IncomingEdge : Enter(r, c)
    \/ \E r \in Reqs, d \in DownstreamsEdge : Downstream(r, d)
    \/ \E r \in Reqs : Finalize(r)

SpecEdge == InitEdge /\ [][NextEdge]_vars

-----------------------------------------------------------------------------
(* The same interceptor behind a filter that decides on the path *)

\* /:section/stats and /users/:id are registered routes
IncomingFilter ==
    { NewContext("/:section/stats", NewRequest("GET", "/internal/stats", 0, OrigBody(<<>>, FALSE))),
      NewContext("/users/:id",      NewRequest("GET", "/users/42", 0, OrigBody(<<>>, FALSE))),
      NewContext("",                NewRequest("GET", "/internal/ghost", 0, OrigBody(<<>>, FALSE))) }

DownstreamsFilter ==
    { [status |-> 200, size |-> 11, readsBody |-> FALSE, panics |-> FALSE],
      [status |-> 404, size |-> -1, readsBody |-> FALSE, panics |-> FALSE] }

InitFilter ==
    /\ conf \in { applyOpt(<<Opt("WithFilterPath", PrefixFilter)>>),
                  applyOpt(<<Opt("WithFilterPath", PrefixFilter),
                             Opt("WithUnmatchedRouteHandling", FALSE)>>) }
    /\ metrics = NewMetrics
    /\ req = [r \in Reqs |-> Idle]
    /\ log = EmptyBag
    /\ now = 0
    /\ fnIn = NoCall
    /\ fnOut = NoCall

NextFilter ==
    \/ \E r \in Reqs, c \in IncomingFilter : Enter(r, c)
    \/ \E r \in Reqs, d \in DownstreamsFilter : Downstream(r, d)
    \/ \E r \in Reqs : Finalize(r)

SpecFilter == InitFilter /\ [][NextFilter]_vars

-----------------------------------------------------------------------------
(* The same interceptor with the deferred recording taken one collector     *)
(* operation at a time: each Inc and Observe is atomic in the collector,    *)
(* and the operations of concurrent requests interleave freely.             *)

ConcurrentOptions ==
    { Opt("WithFilterRoutes", {"/users/:id"}),
      Opt("WithRecordResponseSize", FALSE) }

IncomingConcurrent ==
    { NewContext("/users/:id", NewRequest("GET", "/users/42", 0, OrigBody(<<>>, FALSE))),
      NewContext("",           NewRequest("GET", "/ghost", 0, OrigBody(<<>>, FALSE))) }

DownstreamsConcurrent ==
    { [status |-> 200, size |-> 11, readsBody |-> FALSE, panics |-> FALSE],
      [status |-> 500, size |-> -1, readsBody |-> FALSE, panics |-> TRUE] }

InitConcurrent ==
    /\ conf \in { applyOpt(options) :
                    options \in UNION { [1..n -> ConcurrentOptions] : n \in 0..MaxOpts } }
    /\ metrics = NewMetrics
    /\ req = [r \in Reqs |-> Idle]
    /\ log = EmptyBag
    /\ now = 0
    /\ fnIn = NoCall
    /\ fnOut = NoCall

\* handleMetricsWithCollection builds params, then
\* metrics.TotalRequests.WithLabelValues(params...).Inc()
RecordTotal(r) ==
    /\ req[r].pc = "deferred"
    /\ LET q == req[r]
           params == LabelTuple(q.c, conf, q.route, q.path)
       IN  /\ metrics' = [metrics EXCEPT !.TotalRequests = Inc(@, params)]
           /\ req' = [req EXCEPT ![r] = [q EXCEPT !.pc = "responseSize",
                                                  !.params = params,
                                                  !.recorded = @ + 1]]
    /\ UNCHANGED <<conf, log, now, fnIn, fnOut>>

RecordResponseSize(r) ==
    /\ req[r].pc = "responseSize"
    /\ metrics' = IF conf.recordResponseSize
                  THEN [metrics EXCEPT !.ResponseSize =
                          Observe(@, req[r].params, computeResponseSize(req[r].c))]
                  ELSE metrics
    /\ req' = [req EXCEPT ![r].pc = "requestSize"]
    /\ UNCHANGED <<conf, log, now, fnIn, fnOut>>

RecordRequestSize(r) ==
    /\ req[r].pc = "requestSize"
    /\ LET rs == getRequestSize(req[r].c.Request)
       IN  IF conf.recordRequestSize
           THEN /\ metrics' = [metrics EXCEPT !.RequestSize =
                                 Observe(@, req[r].params, rs.size)]
                /\ req' = [req EXCEPT ![r].pc = "duration", ![r].c.Request = rs.r]
           ELSE /\ metrics' = metrics
                /\ req' = [req EXCEPT ![r].pc = "duration"]
    /\ UNCHANGED <<conf, log, now, fnIn, fnOut>>

\* the last statement of the recording; the handler is left after it
RecordDuration(r) ==
    /\ req[r].pc = "duration"
    /\ metrics' = IF conf.recordDuration
                  THEN [metrics EXCEPT !.Duration =
                          Observe(@, req[r].params, now - req[r].start)]
                  ELSE metrics
    /\ log' = log (+) SetToBag({[req[r] EXCEPT !.pc = "done", !.observed = now]})
    /\ req' = [req EXCEPT ![r] = Gone]
    /\ UNCHANGED <<conf, now, fnIn, fnOut>>

NextConcurrent ==
    \/ \E r \in Reqs, c \in IncomingConcurrent : Enter(r, c)
    \/ \E r \in Reqs, d \in DownstreamsConcurrent : Downstream(r, d)
    \/ \E r \in Reqs : RecordTotal(r)
    \/ \E r \in Reqs : RecordResponseSize(r)
    \/ \E r \in Reqs : RecordRequestSize(r)
    \/ \E r \in Reqs : RecordDuration(r)

SpecConcurrent == InitConcurrent /\ [][NextConcurrent]_vars

-----------------------------------------------------------------------------
(* The same interceptor on a clock that advances between its steps *)

MaxTime == 2     \* ticks of the logical clock

\* time passes: before the request arrives, while the downstream chain
\* runs, and before the deferred function gets to run
Tick ==
    /\ now < MaxTime
    /\ now' = now + 1
    /\ UNCHANGED <<conf, metrics, req, log, fnIn, fnOut>>

IncomingTime ==
    { NewContext("/users/:id", NewRequest("GET", "/users/42", 0, OrigBody(<<>>, FALSE))) }

DownstreamsTime ==
    { [status |-> 200, size |-> 11, readsBody |-> FALSE, panics |-> FALSE],
      [status |-> 500, size |-> -1, readsBody |-> FALSE, panics |-> TRUE] }

InitTime ==
    /\ conf \in { applyOpt(<<>>), applyOpt(<<Opt("WithRecordDuration", FALSE)>>) }
    /\ metrics = NewMetrics
    /\ req = [r \in Reqs |-> Idle]
    /\ log = EmptyBag
    /\ now = 0
    /\ fnIn = NoCall
    /\ fnOut = NoCall

NextTime ==
    \/ \E r \in Reqs, c \in IncomingTime : Enter(r, c)
    \/ \E r \in Reqs, d \in DownstreamsTime : Downstream(r, d)
    \/ \E r \in Reqs : Finalize(r)
    \/ Tick

SpecTime == InitTime /\ [][NextTime]_vars

-----------------------------------------------------------------------------
(* Direct calls, as the package's tests make them: the argument is drawn in  *)
(* the initial state and one action applies the function.                    *)

\* config values as struct literals: any setting of the two unmatched-route
\* fields handleUnmatchedPath reads
Policies ==
    { [defaultConf EXCEPT !.handleUnmatchedRoutes = h, !.groupUnmatchedRoutes = g] :
        h \in BOOLEAN, g \in BOOLEAN }

RoutePatterns == {"", "/users/:id", "/api/v1"}
RawPaths == {"/ghost", "/random/url", "/some/path", "/unknown"}
StatusCodes == {200, 404, 500}

\* the path label of a request: handleUnmatchedPath, then the aggregator
ResolveLabel(cnf, routePattern, path, statusCode) ==
    LET rp == handleUnmatchedPath(cnf, routePattern, path)
    IN  [route |-> rp[1], path |-> rp[2],
         label |-> AggregatorCall(cnf.pathAggregator, rp[1], rp[2], statusCode)]

\* a freshly built default middleware that serves no request
InitNoTraffic ==
    /\ conf = defaultConf
    /\ metrics = NewMetrics
    /\ req = [r \in Reqs |-> Idle]
    /\ log = EmptyBag
    /\ now = 0

InitResolve ==
    /\ InitNoTraffic
    /\ fnIn \in [fn : {"resolve"}, conf : Policies, routePattern : RoutePatterns,
                 path : RawPaths, statusCode : StatusCodes]
    /\ fnOut = NoCall

CallResolve ==
    /\ fnIn.fn = "resolve"
    /\ fnOut = NoCall
    /\ fnOut' = [fn |-> "resolve"] @@
                ResolveLabel(fnIn.conf, fnIn.routePattern, fnIn.path, fnIn.statusCode)
    /\ UNCHANGED <<conf, metrics, req, log, now, fnIn>>

NextResolve == CallResolve

SpecResolve == InitResolve /\ [][NextResolve]_vars

\* conf.pathAggregator(route, path, statusCode) on a default config
BoundaryCodes == {100, 200, 399, 400, 404, 499, 500, 503, 599, 600, 999}

InitAggregator ==
    /\ InitNoTraffic
    /\ fnIn \in [fn : {"pathAggregator"}, route : RoutePatterns, path : RawPaths,
                 statusCode : BoundaryCodes]
    /\ fnOut = NoCall

CallPathAggregator ==
    /\ fnIn.fn = "pathAggregator"
    /\ fnOut = NoCall
    /\ fnOut' = [fn |-> "pathAggregator",
                 label |-> AggregatorCall(defaultConf.pathAggregator,
                                          fnIn.route, fnIn.path, fnIn.statusCode)]
    /\ UNCHANGED <<conf, metrics, req, log, now, fnIn>>

NextAggregator == CallPathAggregator

SpecAggregator == InitAggregator /\ [][NextAggregator]_vars

\* applyOpt(options...) on every list of options, each constructor with the
\* arguments the tests and the README give it, nil functions included
AllOptions ==
    { Opt("WithRecordRequestSize", FALSE),
      Opt("WithRecordRequestSize", TRUE),
      Opt("WithRecordResponseSize", FALSE),
      Opt("WithRecordDuration", FALSE),
      Opt("WithAggregateStatusCode", TRUE),
      Opt("WithFilterPath", SkipFilter),
      Opt("WithFilterPath", NilFilter),
      Opt("WithFilterRoutes", {"/health", "/ready"}),
      Opt("WithPathAggregator", FormatAggregator),
      Opt("WithPathAggregator", NilAggregator),
      Opt("WithUnmatchedRouteHandling", FALSE),
      Opt("WithUnmatchedRouteMarking", TRUE),
      Opt("WithUnmatchedRouteGrouping", TRUE) }

AllOptionLists == UNION { [1..n -> AllOptions] : n \in 0..MaxOpts }

InitOptions ==
    /\ InitNoTraffic
    /\ fnIn \in [fn : {"applyOpt"}, options : AllOptionLists]
    /\ fnOut = NoCall

CallApplyOpt ==
    /\ fnIn.fn = "applyOpt"
    /\ fnOut = NoCall
    /\ fnOut' = [fn |-> "applyOpt", conf |-> applyOpt(fnIn.options)]
    /\ UNCHANGED <<conf, metrics, req, log, now, fnIn>>

NextOptions == CallApplyOpt

SpecOptions == InitOptions /\ [][NextOptions]_vars

Bytes == {1, 2}
Bodies ==
    {NilBody} \cup
    { OrigBody(data, err) :
        data \in UNION { [1..n -> Bytes] : n \in 0..MaxBody }, err \in BOOLEAN }

Headers == { NoHeader, [n \in {"Accept"} |-> <<"*/*">>] }

HttpRequests ==
    { [NewRequest(method, url, cl, body) EXCEPT !.Header = header] :
        method \in {"GET", "POST"}, url \in {"/", "/upload"}, header \in Headers,
        cl \in -1..MaxBody, body \in Bodies }

InitSize ==
    /\ InitNoTraffic
    /\ fnIn \in [fn : {"getRequestSize", "calculateBodySizeStream"}, r : HttpRequests]
    /\ fnOut = NoCall

CallGetRequestSize ==
    /\ fnIn.fn = "getRequestSize"
    /\ fnOut = NoCall
    /\ fnOut' = [fn |-> "getRequestSize"] @@ getRequestSize(fnIn.r)
    /\ UNCHANGED <<conf, metrics, req, log, now, fnIn>>

CallCalculateBodySizeStream ==
    /\ fnIn.fn = "calculateBodySizeStream"
    /\ fnOut = NoCall
    /\ fnOut' = [fn |-> "calculateBodySizeStream"] @@ calculateBodySizeStream(fnIn.r)
    /\ UNCHANGED <<conf, metrics, req, log, now, fnIn>>

NextSize == CallGetRequestSize \/ CallCalculateBodySizeStream

SpecSize == InitSize /\ [][NextSize]_vars

-----------------------------------------------------------------------------
(* Building a MetricsCollection.  A collector vector is described by its    *)
(* name, its label names and its buckets; a registry by the names           *)
(* registered with it.                                                      *)

StandardLabels == <<"status_code", "method", "path">>

\* prometheus.NewCounterVec / NewHistogramVec
NewVec(name, labels, buckets) ==
    [nil |-> FALSE, name |-> name, labels |-> labels, buckets |-> buckets]

NilVec == [nil |-> TRUE, name |-> "", labels |-> <<>>, buckets |-> ""]

\* &MetricsCollection{}; Registry "" is the nil *prometheus.Registry
EmptyCollection ==
    [ TotalRequests |-> NilVec, ResponseSize |-> NilVec, RequestSize |-> NilVec,
      Duration |-> NilVec, Registry |-> "" ]

WithCustomRegistry(mc, registry) == [mc EXCEPT !.Registry = registry]
WithCustomRequestCounter(mc, counter) == [mc EXCEPT !.TotalRequests = counter]
WithCustomResponseSizeHistogram(mc, histogram) == [mc EXCEPT !.ResponseSize = histogram]
WithCustomRequestSizeHistogram(mc, histogram) == [mc EXCEPT !.RequestSize = histogram]
WithCustomDurationHistogram(mc, histogram) == [mc EXCEPT !.Duration = histogram]

WithMetricPrefix(mc, prefix) ==
    [mc EXCEPT
       !.TotalRequests = NewVec(prefix \o "_http_requests_total", StandardLabels, ""),
       !.ResponseSize  = NewVec(prefix \o "_http_response_size_bytes", StandardLabels,
                                "DefaultSizeBuckets"),
       !.RequestSize   = NewVec(prefix \o "_http_request_size_bytes", StandardLabels,
                                "DefaultSizeBuckets"),
       !.Duration      = NewVec(prefix \o "_http_request_duration_seconds", StandardLabels,
                                "DefaultDurationBuckets")]

WithCustomBuckets(mc, durationBuckets, sizeBuckets) ==
    [mc EXCEPT
       !.ResponseSize = NewVec("http_response_size_bytes", StandardLabels, sizeBuckets),
       !.RequestSize  = NewVec("http_request_size_bytes", StandardLabels, sizeBuckets),
       !.Duration     = NewVec("http_request_duration_seconds", StandardLabels,
                               durationBuckets)]

\* opt(mc), for a MetricsOption value
ApplyMetricsOption(o, mc) ==
    CASE o.name = "WithCustomRegistry" -> WithCustomRegistry(mc, o.arg)
      [] o.name = "WithCustomRequestCounter" -> WithCustomRequestCounter(mc, o.arg)
      [] o.name = "WithCustomResponseSizeHistogram" ->
            WithCustomResponseSizeHistogram(mc, o.arg)
      [] o.name = "WithCustomRequestSizeHistogram" ->
            WithCustomRequestSizeHistogram(mc, o.arg)
      [] o.name = "WithCustomDurationHistogram" -> WithCustomDurationHistogram(mc, o.arg)
      [] o.name = "WithMetricPrefix" -> WithMetricPrefix(mc, o.arg)
      [] o.name = "WithCustomBuckets" -> WithCustomBuckets(mc, o.arg[1], o.arg[2])

RECURSIVE applyMetricsOptions(_, _)
applyMetricsOptions(opts, mc) ==
    IF opts = <<>> THEN mc
    ELSE applyMetricsOptions(Tail(opts), ApplyMetricsOption(Head(opts), mc))

\* registry.MustRegister of the collectors in turn: registering a name the
\* registry already holds fails, and MustRegister panics on the failure;
\* what was registered before the panic stays registered
RECURSIVE MustRegisterAll(_, _)
MustRegisterAll(names, vecs) ==
    IF vecs = <<>> THEN [names |-> names, panicked |-> FALSE]
    ELSE IF Head(vecs).name \in names THEN [names |-> names, panicked |-> TRUE]
    ELSE MustRegisterAll(names \cup {Head(vecs).name}, Tail(vecs))

\* the registries of the process once package init has run:
\* defaultMetricsCollection registered the four default names with the
\* default registry; "custom" is a registry the caller made with
\* prometheus.NewRegistry()
RegistriesAfterInit ==
    [ default |-> MustRegisterAll({}, << NewVec("http_requests_total", StandardLabels, ""),
                                         NewVec("http_response_size_bytes", StandardLabels, "DefaultSizeBuckets"),
                                         NewVec("http_request_size_bytes", StandardLabels, "DefaultSizeBuckets"),
                                         NewVec("http_request_duration_seconds", StandardLabels, "DefaultDurationBuckets") >>).names,
      custom  |-> {} ]

\* returns [mc, registries, panicked]
NewMetricsCollection(opts, registries) ==
    LET m0 == applyMetricsOptions(opts, EmptyCollection)
        m1 == IF m0.TotalRequests.nil
              THEN [m0 EXCEPT !.TotalRequests =
                      NewVec("http_requests_total", StandardLabels, "")]
              ELSE m0
        m2 == IF m1.ResponseSize.nil
              THEN [m1 EXCEPT !.ResponseSize =
                      NewVec("http_response_size_bytes", StandardLabels, "DefaultSizeBuckets")]
              ELSE m1
        m3 == IF m2.RequestSize.nil
              THEN [m2 EXCEPT !.RequestSize =
                      NewVec("http_request_size_bytes", StandardLabels, "DefaultSizeBuckets")]
              ELSE m2
        mc == IF m3.Duration.nil
              THEN [m3 EXCEPT !.Duration =
                      NewVec("http_request_duration_seconds", StandardLabels,
                             "DefaultDurationBuckets")]
              ELSE m3
        registry == IF mc.Registry # "" THEN mc.Registry ELSE "default"
        reg == MustRegisterAll(registries[registry],
                 <<mc.TotalRequests, mc.ResponseSize, mc.RequestSize, mc.Duration>>)
    IN  [mc |-> mc, registries |-> [registries EXCEPT ![registry] = reg.names],
         panicked |-> reg.panicked]

\* vec.WithLabelValues(params...): panics unless there is one value per label
WithLabelValuesPanics(vec, params) == Len(params) # Len(vec.labels)

\* whether recordRequestMetricsWithCollection panics on the collection,
\* with all three histograms enabled
RecordingPanics(mc, params) ==
    \/ WithLabelValuesPanics(mc.TotalRequests, params)
    \/ WithLabelValuesPanics(mc.ResponseSize, params)
    \/ WithLabelValuesPanics(mc.RequestSize, params)
    \/ WithLabelValuesPanics(mc.Duration, params)

\* collectors a caller brings: with the middleware's labels, and without
\* the path label
CustomCounters ==
    { NewVec("my_requests", StandardLabels, ""),
      NewVec("my_requests", <<"status_code", "method">>, "") }

CustomHistograms ==
    { NewVec("my_duration", StandardLabels, "myBuckets"),
      NewVec("my_duration", <<"status_code", "method">>, "myBuckets") }

MetricsOptions ==
    { Opt("WithCustomRegistry", "custom"),
      Opt("WithMetricPrefix", "myservice"),
      Opt("WithCustomBuckets", <<"durationBuckets", "sizeBuckets">>) }
    \cup { Opt("WithCustomRequestCounter", v) : v \in CustomCounters }
    \cup { Opt("WithCustomDurationHistogram", v) : v \in CustomHistograms }

MetricsOptionLists == UNION { [1..n -> MetricsOptions] : n \in 0..MaxOpts }

InitCollection ==
    /\ InitNoTraffic
    /\ fnIn \in [fn : {"NewMetricsCollection"}, opts : MetricsOptionLists]
    /\ fnOut = NoCall

CallNewMetricsCollection ==
    /\ fnIn.fn = "NewMetricsCollection"
    /\ fnOut = NoCall
    /\ fnOut' = [fn |-> "NewMetricsCollection", served |-> FALSE, servePanicked |-> FALSE]
                @@ NewMetricsCollection(fnIn.opts, RegistriesAfterInit)
    /\ UNCHANGED <<conf, metrics, req, log, now, fnIn>>

\* a middleware built on the collection records its first request
ServeOnCollection ==
    /\ fnOut.fn = "NewMetricsCollection"
    /\ ~fnOut.panicked /\ ~fnOut.served
    /\ fnOut' = [fnOut EXCEPT
                   !.served = TRUE,
                   !.servePanicked = RecordingPanics(fnOut.mc, <<"200", "GET", "/users/:id">>)]
    /\ UNCHANGED <<conf, metrics, req, log, now, fnIn>>

NextCollection == CallNewMetricsCollection \/ ServeOnCollection

SpecCollection == InitCollection /\ [][NextCollection]_vars

-----------------------------------------------------------------------------
(* The metrics endpoint: GetMetricHandler and its basic-auth wrapper.       *)
(* Strings that are taken apart are sequences of characters.                *)

MaxCred == 3     \* characters in the decoded credentials of a request

CredChars == {"a", "b", ":"}

handlerConfigZero == [username |-> <<>>, password |-> <<>>]

WithBasicAuth(c, username, password) ==
    [c EXCEPT !.username = username, !.password = password]

RECURSIVE applyHandlerOptions(_, _)
applyHandlerOptions(opt, c) ==
    IF opt = <<>> THEN c
    ELSE applyHandlerOptions(Tail(opt), WithBasicAuth(c, Head(opt)[1], Head(opt)[2]))

\* the Authorization header of a request: absent, or a scheme and a
\* payload that base64-decodes (or fails to) into a character sequence
NoAuthorization == [present |-> FALSE, scheme |-> "", valid |-> FALSE, decoded |-> <<>>]

Authorization(scheme, valid, decoded) ==
    [present |-> TRUE, scheme |-> scheme, valid |-> valid, decoded |-> decoded]

\* strings.IndexByte(s, ':'), 0 when there is none
IndexOfColon(cs) ==
    IF \E i \in 1..Len(cs) : cs[i] = ":"
    THEN CHOOSE i \in 1..Len(cs) : cs[i] = ":" /\ \A j \in 1..(i - 1) : cs[j] # ":"
    ELSE 0

\* r.BasicAuth(): the scheme is compared case-insensitively, the payload
\* is decoded and cut at its first colon
BasicAuth(auth) ==
    LET i == IndexOfColon(auth.decoded)
    IN  IF ~auth.present \/ auth.scheme \notin {"Basic", "basic"} \/ ~auth.valid \/ i = 0
        THEN [username |-> <<>>, password |-> <<>>, ok |-> FALSE]
        ELSE [username |-> SubSeq(auth.decoded, 1, i - 1),
              password |-> SubSeq(auth.decoded, i + 1, Len(auth.decoded)),
              ok |-> TRUE]

\* promhttp.Handler().ServeHTTP: the exposition is written
promhttpHandler(w) == [w EXCEPT !.status = 200, !.served = TRUE]

NewRecorder == [status |-> 0, challenge |-> "", served |-> FALSE]

withBasicAuth_UsernameOnly(username, password, w, auth) ==
    LET cred == BasicAuth(auth)
    IN  IF ~cred.ok \/ cred.username # username
        THEN [w EXCEPT !.challenge = "Basic realm=\"restricted\"", !.status = 401]
        ELSE promhttpHandler(w)

\* the handler withBasicAuth returns, serving one request
withBasicAuth(username, password, w, auth) ==
    LET cred == BasicAuth(auth)
    IN  IF ~cred.ok \/ cred.username # username \/ cred.password # password
        THEN [w EXCEPT !.challenge = "Basic realm=\"restricted\"", !.status = 401]
        ELSE promhttpHandler(w)

GetMetricHandler_AuthWhenEitherSet(opt, w, auth) ==
    LET hc == applyHandlerOptions(opt, handlerConfigZero)
    IN  IF hc.username # <<>> \/ hc.password # <<>>
        THEN withBasicAuth(hc.username, hc.password, w, auth)
        ELSE promhttpHandler(w)

\* the handler GetMetricHandler(opt...) returns, serving one request
GetMetricHandler(opt, w, auth) ==
    LET hc == applyHandlerOptions(opt, handlerConfigZero)
    IN  IF hc.username # <<>> /\ hc.password # <<>>
        THEN withBasicAuth(hc.username, hc.password, w, auth)
        ELSE promhttpHandler(w)

Usernames == {<<>>, <<"a">>, <<"b">>}
Passwords == {<<>>, <<"a">>, <<"b">>, <<":">>}

HandlerOptionLists ==
    {<<>>} \cup { <<<<u, p>>>> : u \in Usernames, p \in Passwords }

Authorizations ==
    {NoAuthorization} \cup
    { Authorization(scheme, valid, decoded) :
        scheme \in {"Basic", "basic", "Bearer"}, valid \in BOOLEAN,
        decoded \in UNION { [1..n -> CredChars] : n \in 0..MaxCred } }

InitAuth ==
    /\ InitNoTraffic
    /\ fnIn \in [fn : {"ServeHTTP"}, opt : HandlerOptionLists, auth : Authorizations]
    /\ fnOut = NoCall

ServeMetrics ==
    /\ fnIn.fn = "ServeHTTP"
    /\ fnOut = NoCall
    /\ fnOut' = [fn |-> "ServeHTTP", w |-> GetMetricHandler(fnIn.opt, NewRecorder, fnIn.auth)]
    /\ UNCHANGED <<conf, metrics, req, log, now, fnIn>>

NextAuth == ServeMetrics

SpecAuth == InitAuth /\ [][NextAuth]_vars

-----------------------------------------------------------------------------
(* Properties *)

\* the requests being served, and those served (each once, however many
\* ended alike)
InFlight == { req[r] : r \in { x \in Reqs : req[x].pc \in {"next", "deferred"} } }
Finished == BagToSet(log)
Served   == InFlight \cup Finished

Unmatched(q) == q.c.fullPath = ""
Recorded(q)  == q.recorded > 0

\* policy.filterPath(route, path) for the request, whatever the handler did
PolicyFilters(q) == FilterCall(conf.filterPath, q.route, q.path)

RECURSIVE SumCopies(_, _)
SumCopies(B, S) ==
    IF S = {} THEN 0
    ELSE LET e == CHOOSE x \in S : TRUE
         IN  CopiesIn(e, B) + SumCopies(B, S \ {e})

\* number of completed requests the policy does not filter
CompletedNotFiltered == SumCopies(log, { q \in Finished : ~PolicyFilters(q) })

\* number of observations a histogram holds under one label tuple
Observations(h, params) == SumCopies(h, { e \in BagToSet(h) : e[1] = params })

HistogramLabels(h) == { e[1] : e \in BagToSet(h) }

AllLabels ==
    BagToSet(metrics.TotalRequests) \cup HistogramLabels(metrics.ResponseSize)
    \cup HistogramLabels(metrics.RequestSize) \cup HistogramLabels(metrics.Duration)

\* C1: every step of a request that policy.filterPath(route, path) filters
\* leaves all four collectors exactly as they were, whatever other requests
\* have been or are being served.
C1_FilteredRequestLeavesCollectors ==
    [][\A r \in Reqs :
          (req'[r] # req[r]
             /\ PolicyFilters(IF req[r].pc = "idle" THEN req'[r] ELSE req[r]))
          => metrics' = metrics]_vars

C1_Witness ==
    \E q1, q2 \in Finished :
        /\ PolicyFilters(q1) /\ q1.ran
        /\ ~PolicyFilters(q2)
        /\ BagCardinality(metrics.TotalRequests) = 1
        /\ AllLabels = {q2.params}

\* C2: the counter, summed over all label tuples, equals the number of
\* completed non-filtered requests, under every setting of the three
\* recordX flags.
C2_CounterCountsCompletedRequests ==
    BagCardinality(metrics.TotalRequests) = CompletedNotFiltered

C2_Witness ==
    /\ ~conf.recordRequestSize /\ ~conf.recordResponseSize /\ ~conf.recordDuration
    /\ CompletedNotFiltered = NumReq
    /\ BagCardinality(metrics.TotalRequests) = NumReq

FlagGates(flag, h) ==
    \A params \in AllLabels :
        Observations(h, params) =
            IF flag THEN CopiesIn(params, metrics.TotalRequests) ELSE 0

\* C3: under every label tuple each histogram holds one observation per
\* counted request when its recordX flag is true and none when it is false;
\* the counter and the other histograms do not depend on that flag.
C3_HistogramsFollowTheirFlag ==
    /\ FlagGates(conf.recordResponseSize, metrics.ResponseSize)
    /\ FlagGates(conf.recordRequestSize, metrics.RequestSize)
    /\ FlagGates(conf.recordDuration, metrics.Duration)
    /\ BagCardinality(metrics.TotalRequests) = CompletedNotFiltered

C3_Witness ==
    /\ ~conf.recordRequestSize /\ conf.recordResponseSize /\ conf.recordDuration
    /\ CompletedNotFiltered = NumReq
    /\ BagCardinality(metrics.RequestSize) = 0
    /\ BagCardinality(metrics.ResponseSize) = NumReq
    /\ BagCardinality(metrics.Duration) = NumReq

\* C4: a request is recorded at most once, only after the downstream chain
\* has run and only if it is not filtered; and every completed non-filtered
\* request has been recorded exactly once, whether the downstream handler
\* returned, panicked or wrote no body.
C4_FinalizedExactlyOnce ==
    /\ \A q \in InFlight : q.recorded = 0
    /\ \A q \in Finished :
          /\ q.recorded <= 1
          /\ Recorded(q) => q.ran /\ ~PolicyFilters(q)
          /\ ~PolicyFilters(q) => q.recorded = 1

C4_Witness ==
    \E q1, q2 \in Finished :
        /\ q1.panicked /\ q1.recorded = 1
        /\ ~q2.panicked /\ q2.c.Writer.size = -1 /\ q2.recorded = 1

\* C5: with handleUnmatchedRoutes and groupUnmatchedRoutes true and the
\* default aggregator, every recorded request to an unmatched route carries
\* the path label "/unmatched/*", so the path labels in the collectors are
\* that sentinel and the registered route patterns only.
C5_UnmatchedGroupedUnderSentinel ==
    (conf.handleUnmatchedRoutes /\ conf.groupUnmatchedRoutes
       /\ conf.pathAggregator = DefaultAggregator)
    => /\ \A q \in Finished : (Unmatched(q) /\ Recorded(q)) => q.params[3] = "/unmatched/*"
       /\ { params[3] : params \in AllLabels } \subseteq {"/unmatched/*", "/users/:id"}

C5_Witness ==
    /\ conf = defaultConf
    /\ \E q1, q2 \in Finished :
          /\ Unmatched(q1) /\ Recorded(q1) /\ q1.c.urlPath = "/ghost"
          /\ Unmatched(q2) /\ Recorded(q2) /\ q2.c.urlPath = "/random/url"
    /\ { params[3] : params \in AllLabels } = {"/unmatched/*"}

\* C6: the value passed to WithUnmatchedRouteGrouping decides the label of
\* unmatched requests: "/unmatched" + raw path after
\* WithUnmatchedRouteHandling(true), WithUnmatchedRouteGrouping(false), and
\* "/unmatched/*" after WithUnmatchedRouteGrouping(true).
C6_GroupingOptionDecidesLabel ==
    /\ conf = applyOpt(<<Opt("WithUnmatchedRouteHandling", TRUE),
                         Opt("WithUnmatchedRouteGrouping", FALSE)>>)
       => \A q \in Finished : (Unmatched(q) /\ Recorded(q))
             => q.params[3] = "/unmatched" \o q.c.urlPath
    /\ conf = applyOpt(<<Opt("WithUnmatchedRouteGrouping", TRUE)>>)
       => \A q \in Finished : (Unmatched(q) /\ Recorded(q))
             => q.params[3] = "/unmatched/*"

\* C7: under a policy with handleUnmatchedRoutes true and
\* groupUnmatchedRoutes false, the path label of a request to an unmatched
\* route is "/unmatched" followed by the raw path.
C7_UngroupedLabelIsMarkedRawPath ==
    (fnOut.fn = "resolve" /\ fnIn.routePattern = ""
       /\ fnIn.conf.handleUnmatchedRoutes /\ ~fnIn.conf.groupUnmatchedRoutes)
    => /\ fnOut.label = "/unmatched" \o fnIn.path
       /\ fnIn.path = "/random/url" => fnOut.label = "/unmatched/random/url"
       /\ fnOut.path = fnIn.path

C7_Witness ==
    /\ fnOut.fn = "resolve" /\ fnIn.routePattern = "" /\ fnIn.path = "/random/url"
    /\ fnIn.conf.handleUnmatchedRoutes /\ ~fnIn.conf.groupUnmatchedRoutes
    /\ fnOut.label = "/unmatched/random/url"

\* C8: after WithUnmatchedRouteHandling(false) a request that matches no
\* route touches no collector: it is never recorded.
C8_UnmatchedDroppedWhenHandlingOff ==
    conf = applyOpt(<<Opt("WithUnmatchedRouteHandling", FALSE)>>)
    => \A q \in Finished : Unmatched(q) => ~Recorded(q)

\* C9 (as stated): with an empty matched route and handleUnmatchedRoutes
\* false, the route handed on is the raw path, as is the path.
C9_RouteIsRawPathWhenHandlingOff ==
    \A q \in Served :
        (Unmatched(q) /\ ~conf.handleUnmatchedRoutes)
        => q.route = q.c.urlPath /\ q.path = q.c.urlPath

\* C9 (amended): with an empty matched route and handleUnmatchedRoutes
\* false, the route handed on to the filter and the aggregator is still the
\* empty string, and the path is the raw request path.
C9_RouteStaysEmptyWhenHandlingOff ==
    \A q \in Served :
        (Unmatched(q) /\ ~conf.handleUnmatchedRoutes)
        => q.route = "" /\ q.path = q.c.urlPath

C9_Witness ==
    /\ ~conf.handleUnmatchedRoutes
    /\ \E q \in Finished : /\ Unmatched(q) /\ Recorded(q)
                           /\ q.route = "" /\ q.path = "/ghost"
                           /\ q.params[3] = "path_4xx"

RequestLineAndHeaderBytes(r) ==
    (Len(r.Method) + 1) + (Len(r.URL) + 1) + (Len(r.Proto) + 2)
    + HeaderSize(r.Header, DOMAIN r.Header) + 2

\* the body bytes of a request: the declared length, or what the body holds
BodyBytes(r) ==
    IF r.ContentLength >= 0 THEN r.ContentLength
    ELSE IF r.Body.nil THEN 0 ELSE Len(r.Body.data)

\* C11: for every request, with declared or unknown content length, whose
\* body can be read, the request size getRequestSize reports for the
\* request-size histogram is the request-line and header bytes plus the
\* body bytes.
C11_SizeIncludesRequestLineAndHeaders ==
    (fnOut.fn = "getRequestSize" /\ ~(fnIn.r.ContentLength = -1 /\ fnIn.r.Body.err))
    => fnOut.size = RequestLineAndHeaderBytes(fnIn.r) + BodyBytes(fnIn.r)

\* C12: for a request with unknown content length and any body content,
\* after a successful calculateBodySizeStream the size returned is the
\* number of bytes the body held, and reading the replaced body to the end
\* yields exactly the bytes the body held before the call.
C12_BodyMeasurementRoundTrip ==
    (fnOut.fn = "calculateBodySizeStream" /\ fnIn.r.ContentLength = -1
       /\ ~fnIn.r.Body.nil /\ ~fnOut.err)
    => /\ fnOut.size = Len(fnIn.r.Body.data)
       /\ ~ioReadAll(fnOut.r.Body).err
       /\ ioReadAll(fnOut.r.Body).data = fnIn.r.Body.data
       /\ [fnOut.r EXCEPT !.Body = fnIn.r.Body] = fnIn.r

C12_Witness ==
    /\ fnOut.fn = "calculateBodySizeStream" /\ fnIn.r.ContentLength = -1
    /\ fnIn.r.Body = OrigBody(<<1, 2>>, FALSE)
    /\ ~fnOut.err /\ fnOut.size = 2
    /\ fnOut.r.Body.reader = "buffer" /\ ioReadAll(fnOut.r.Body).data = <<1, 2>>

\* a request whose body cannot be read to the end and has to be measured
BodyReadFails(q) == q.c.Request.ContentLength = -1 /\ q.c.Request.Body.err

\* C13: a request whose body read fails during size estimation is recorded
\* as usual: once, after the downstream chain ran, with one request-size
\* observation of 0 when that histogram is enabled and the counter and the
\* other histograms as for any request; and the recording step leaves the
\* response and the outcome of the request as the downstream chain left
\* them.
C13_BodyReadFailureRecordsZero ==
    /\ [](\A q \in Finished :
             (BodyReadFails(q) /\ ~PolicyFilters(q))
             => /\ q.recorded = 1 /\ q.ran
                /\ conf.recordRequestSize
                   => /\ CopiesIn(<<q.params, 0>>, metrics.RequestSize) >= CopiesIn(q, log)
                      /\ \A e \in BagToSet(metrics.RequestSize) :
                            (e[1][2] = q.c.Request.Method) => e[2] = 0
                /\ CopiesIn(q.params, metrics.TotalRequests) >= CopiesIn(q, log)
                /\ FlagGates(conf.recordResponseSize, metrics.ResponseSize)
                /\ FlagGates(conf.recordRequestSize, metrics.RequestSize)
                /\ FlagGates(conf.recordDuration, metrics.Duration))
    /\ [][\A r \in Reqs :
             (req[r].pc = "deferred" /\ BodyReadFails(req[r]) /\ req'[r].pc = "done")
             => \E e \in BagToSet(log') :
                   /\ CopiesIn(e, log') = CopiesIn(e, log) + 1
                   /\ e.c.Writer = req[r].c.Writer
                   /\ e.panicked = req[r].panicked /\ e.ran]_vars

C13_Witness ==
    /\ conf.recordRequestSize
    /\ \E q \in Finished :
          /\ BodyReadFails(q) /\ q.c.Request.Method = "POST" /\ q.recorded = 1
          /\ q.c.Writer.status = 201 /\ q.c.Writer.size = 5
          /\ CopiesIn(<<q.params, 0>>, metrics.RequestSize) = 1
          /\ CopiesIn(<<q.params, 5>>, metrics.ResponseSize) = 1
          /\ CopiesIn(q.params, metrics.TotalRequests) = 1

\* the decimal string of a status code, and the label of its class
DecimalString(code) ==
    CASE code = 201 -> "201" [] code = 204 -> "204" [] code = 404 -> "404"

ClassString(code) ==
    CASE code \in 200..299 -> "2xx" [] code \in 400..499 -> "4xx"

\* C14: the status label of a recorded request is the decimal string of its
\* final status code when aggregateStatusCode is false and the hundreds
\* digit followed by "xx" when it is true, so two requests that differ only
\* in status codes of one class carry the same label tuple.
C14_StatusLabelLiteralOrClass ==
    /\ \A q \in Finished :
          Recorded(q)
          => /\ q.params[1] = IF conf.aggregateStatusCode
                              THEN ClassString(q.c.Writer.status)
                              ELSE DecimalString(q.c.Writer.status)
             /\ q.params \in BagToSet(metrics.TotalRequests)
    /\ \A q1, q2 \in Finished :
          (/\ Recorded(q1) /\ Recorded(q2) /\ conf.aggregateStatusCode
           /\ q1.c.Writer.status \div 100 = q2.c.Writer.status \div 100
           /\ q1.params[2] = q2.params[2] /\ q1.params[3] = q2.params[3])
          => q1.params = q2.params

C14_Witness ==
    /\ conf.aggregateStatusCode
    /\ \E q1, q2 \in Finished :
          /\ q1.c.Writer.status = 201 /\ q2.c.Writer.status = 204
          /\ q1.params = <<"2xx", "GET", "/users/:id">>
          /\ q2.params = q1.params
          /\ CopiesIn(q1.params, metrics.TotalRequests) = 2

\* the aggregator applied to the route that unmatched-route handling
\* produced, the path, and the status the request ended with
ExpectedPathLabel(q) ==
    LET rp == handleUnmatchedPath(conf, q.c.fullPath, getPathFromContext(q.c))
    IN  AggregatorCall(conf.pathAggregator, rp[1], rp[2], q.c.Writer.status)

\* C18: the path label of every recorded request is
\* pathAggregator(route', path, finalStatus), route' being the route after
\* unmatched-route handling and finalStatus the status at finalization; the
\* counter and every enabled histogram carry exactly these labels.
C18_PathLabelIsAggregatorOfHandledRoute ==
    /\ \A q \in Finished :
          Recorded(q) => /\ q.params[3] = ExpectedPathLabel(q)
                         /\ q.params \in BagToSet(metrics.TotalRequests)
    /\ { params[3] : params \in BagToSet(metrics.TotalRequests) }
          = { ExpectedPathLabel(q) : q \in { x \in Finished : Recorded(x) } }
    /\ HistogramLabels(metrics.ResponseSize) = BagToSet(metrics.TotalRequests)
    /\ HistogramLabels(metrics.RequestSize) = BagToSet(metrics.TotalRequests)
    /\ HistogramLabels(metrics.Duration) = BagToSet(metrics.TotalRequests)

C18_Witness ==
    /\ conf.pathAggregator = FormatAggregator /\ conf.handleUnmatchedRoutes
    /\ \E q \in Finished :
          /\ Unmatched(q) /\ Recorded(q) /\ q.c.Writer.status = 404
          /\ q.params[3] = "/unmatched/*_404"
          /\ q.params \in HistogramLabels(metrics.ResponseSize)
          /\ q.params \in HistogramLabels(metrics.Duration)

\* C20: for every recorded request with recordDuration enabled, the start
\* time is taken before the downstream chain runs and the end time at
\* finalization after it has returned, so start <= handler return <=
\* observation time and the duration observed, observation time minus
\* start, is at least the time the downstream chain took.
C20_DurationCoversDownstreamHandler ==
    /\ \A q \in InFlight :
          /\ q.start <= now
          /\ q.pc = "deferred" => q.start <= q.returned /\ q.returned <= now
    /\ conf.recordDuration =>
          /\ \A q \in Finished :
                Recorded(q)
                => /\ q.start <= q.returned /\ q.returned <= q.observed
                   /\ <<q.params, q.observed - q.start>> \in BagToSet(metrics.Duration)
          /\ \A e \in BagToSet(metrics.Duration) :
                /\ CopiesIn(e, metrics.Duration) =
                     SumCopies(log, { q \in Finished :
                                        /\ Recorded(q) /\ q.params = e[1]
                                        /\ q.observed - q.start = e[2] })
                /\ \E q \in Finished : /\ Recorded(q) /\ q.params = e[1]
                                        /\ e[2] >= q.returned - q.start

C20_Witness ==
    /\ conf.recordDuration
    /\ \E q \in Finished :
          /\ Recorded(q) /\ q.start = 0 /\ q.returned = 1 /\ q.observed = MaxTime
          /\ <<q.params, MaxTime>> \in BagToSet(metrics.Duration)

\* C15: the default pathAggregator returns route verbatim when route is
\* non-empty; otherwise "path_4xx" exactly for 400..499, "path_5xx" exactly
\* for 500..599 and "missing_route" for every other status code, including
\* codes of 600 and above; the raw path never matters.
C15_DefaultAggregatorClassifiesByStatus ==
    fnOut.fn = "pathAggregator"
    => fnOut.label =
         IF fnIn.route # "" THEN fnIn.route
         ELSE IF fnIn.statusCode \in 400..499 THEN "path_4xx"
         ELSE IF fnIn.statusCode \in 500..599 THEN "path_5xx"
         ELSE "missing_route"

\* the config field an option writes, and the value it writes there
OptionField(o) ==
    CASE o.name = "WithRecordRequestSize"      -> "recordRequestSize"
      [] o.name = "WithRecordResponseSize"     -> "recordResponseSize"
      [] o.name = "WithRecordDuration"         -> "recordDuration"
      [] o.name = "WithFilterPath"             -> "filterPath"
      [] o.name = "WithFilterRoutes"           -> "filterPath"
      [] o.name = "WithPathAggregator"         -> "pathAggregator"
      [] o.name = "WithAggregateStatusCode"    -> "aggregateStatusCode"
      [] o.name = "WithUnmatchedRouteHandling" -> "handleUnmatchedRoutes"
      [] o.name = "WithUnmatchedRouteMarking"  -> "markUnmatchedRoutes"
      [] o.name = "WithUnmatchedRouteGrouping" -> "unmatchedRoutesGrouping"

OptionValue(o) == IF o.name = "WithFilterRoutes" THEN RoutesFilter(o.arg) ELSE o.arg

\* the value the last option touching the field wrote, or the default
LastWritten(options, field) ==
    LET touching == { i \in 1..Len(options) : OptionField(options[i]) = field }
    IN  IF touching = {} THEN defaultConf[field]
        ELSE OptionValue(options[CHOOSE i \in touching : \A j \in touching : j <= i])

\* C16: applyOpt applies the options in list order to a fresh default
\* config: every field ends with the value written by the last option in
\* the list that touches it, or its default if none does; filterPath is
\* whichever of WithFilterPath / WithFilterRoutes comes last.
C16_LastOptionWinsPerField ==
    fnOut.fn = "applyOpt"
    => \A field \in DOMAIN defaultConf :
          fnOut.conf[field] = LastWritten(fnIn.options, field)

C16_Witness ==
    /\ fnOut.fn = "applyOpt"
    /\ fnIn.options = <<Opt("WithFilterPath", SkipFilter),
                        Opt("WithRecordRequestSize", FALSE),
                        Opt("WithFilterRoutes", {"/health", "/ready"})>>
    /\ fnOut.conf.filterPath = RoutesFilter({"/health", "/ready"})
    /\ ~FilterCall(fnOut.conf.filterPath, "/skip", "/skip")
    /\ ~fnOut.conf.recordRequestSize

\* C17: for every list of options, WithFilterPath(nil) and
\* WithPathAggregator(nil) included, the config built has a non-nil
\* filterPath and a non-nil pathAggregator.
C17_PolicyFunctionsNeverNil ==
    fnOut.fn = "applyOpt"
    => /\ fnOut.conf.filterPath # NilFilter
       /\ fnOut.conf.pathAggregator # NilAggregator

\* the request carries Basic credentials with exactly this username and
\* this password: a Basic header whose payload decodes to username, a
\* colon, password
CarriesCredentials(auth, username, password) ==
    /\ auth.present /\ auth.scheme \in {"Basic", "basic"} /\ auth.valid
    /\ auth.decoded = username \o <<":">> \o password

\* C19: behind WithBasicAuth(u, p) with non-empty u and p, the wrapped
\* metrics handler is invoked if and only if the request carries Basic
\* credentials with username u and password p exactly; otherwise the
\* response is 401 with a WWW-Authenticate challenge and the wrapped
\* handler is not invoked.
C19_MetricsServedOnlyToExactCredentials ==
    (fnOut.fn = "ServeHTTP" /\ Len(fnIn.opt) = 1
       /\ fnIn.opt[1][1] # <<>> /\ fnIn.opt[1][2] # <<>>)
    => IF CarriesCredentials(fnIn.auth, fnIn.opt[1][1], fnIn.opt[1][2])
       THEN fnOut.w.served /\ fnOut.w.status = 200
       ELSE /\ ~fnOut.w.served /\ fnOut.w.status = 401
            /\ fnOut.w.challenge # ""

C19_Witness ==
    /\ fnOut.fn = "ServeHTTP"
    /\ fnIn.opt = <<<<(<<"a">>), (<<"b">>)>>>>
    /\ fnIn.auth = Authorization("Basic", TRUE, <<"a", ":", "a">>)
    /\ ~fnOut.w.served /\ fnOut.w.status = 401
    /\ fnOut.w.challenge = "Basic realm=\"restricted\""

\* the option list holds an option of this constructor
HasOption(opts, name) == \E i \in 1..Len(opts) : opts[i].name = name

\* the four collectors of a collection
VecsOf(mc) == {mc.TotalRequests, mc.ResponseSize, mc.RequestSize, mc.Duration}

\* C21: a custom collector whose label set differs from (status_code,
\* method, path) makes NewMetricsCollection fail at construction; it is
\* never accepted to fail only when a request is recorded.
C21_MismatchedLabelsFailAtConstruction ==
    fnOut.fn = "NewMetricsCollection"
    => /\ (\E v \in VecsOf(fnOut.mc) : v.labels # StandardLabels) => fnOut.panicked
       /\ fnOut.served => ~fnOut.servePanicked

\* C22: after package init, NewMetricsCollection without WithCustomRegistry
\* and without WithMetricPrefix completes and its four collectors are
\* registered with the default registry.
C22_DefaultRegistryAcceptsSecondCollection ==
    (fnOut.fn = "NewMetricsCollection"
       /\ ~HasOption(fnIn.opts, "WithCustomRegistry")
       /\ ~HasOption(fnIn.opts, "WithMetricPrefix"))
    => /\ ~fnOut.panicked
       /\ \A v \in VecsOf(fnOut.mc) : v.name \in fnOut.registries.default

\* C23: whenever the option list holds WithMetricPrefix(p), in any position
\* relative to WithCustomBuckets, all four collectors of the resulting
\* collection carry the prefix.
C23_PrefixAppliesToAllFour ==
    (fnOut.fn = "NewMetricsCollection" /\ ~fnOut.panicked
       /\ HasOption(fnIn.opts, "WithMetricPrefix")
       /\ ~HasOption(fnIn.opts, "WithCustomRequestCounter")
       /\ ~HasOption(fnIn.opts, "WithCustomDurationHistogram"))
    => /\ fnOut.mc.TotalRequests.name = "myservice_http_requests_total"
       /\ fnOut.mc.Duration.name = "myservice_http_request_duration_seconds"
       /\ fnOut.mc.RequestSize.name = "myservice_http_request_size_bytes"
       /\ fnOut.mc.ResponseSize.name = "myservice_http_response_size_bytes"

\* C24: the filter installed with WithFilterPath is called with the raw URL
\* path of the request as its second argument, so the predicate
\* HasPrefix(path, "/internal") skips exactly the requests whose requested
\* URL starts with /internal.
C24_FilterReceivesRawPath ==
    \A q \in Served :
        /\ q.path = q.c.urlPath
        /\ q.skip = HasPrefix(q.c.urlPath, "/internal")

\* every request has arrived and has left the handler
AllDone == \A r \in Reqs : req[r].pc = "done"

\* C25: under every interleaving of the steps of NumReq concurrent
\* requests, the config is never written, and once all requests have
\* completed no increment or observation is lost: under every label tuple
\* the counter holds one increment per non-filtered request recorded with
\* it, and each histogram holds as many observations when enabled and none
\* when disabled.
C25_NoUpdateLostUnderInterleaving ==
    /\ [][conf' = conf]_vars
    /\ [](AllDone =>
            /\ BagCardinality(metrics.TotalRequests) = CompletedNotFiltered
            /\ \A params \in AllLabels \cup { q.params : q \in Finished } :
                  CopiesIn(params, metrics.TotalRequests) =
                    SumCopies(log, { q \in Finished : Recorded(q) /\ q.params = params })
            /\ FlagGates(conf.recordResponseSize, metrics.ResponseSize)
            /\ FlagGates(conf.recordRequestSize, metrics.RequestSize)
            /\ FlagGates(conf.recordDuration, metrics.Duration))

C25_Witness ==
    /\ AllDone /\ conf = defaultConf
    /\ CompletedNotFiltered = NumReq
    /\ CopiesIn(<<"200", "GET", "/users/:id">>, metrics.TotalRequests) = NumReq
    /\ BagCardinality(metrics.ResponseSize) = NumReq
    /\ BagCardinality(metrics.Duration) = NumReq

\* C26: for a recorded request with unknown content length whose body held
\* two bytes, the request-size histogram observes the request-line and
\* header bytes plus those two bytes, whether or not the downstream handler
\* read the body.
C26_ConsumedBodyStillMeasured ==
    conf.recordRequestSize
    => \A q \in Finished :
          (Recorded(q) /\ q.c.Request.ContentLength = -1 /\ q.c.urlPath = "/random/url")
          => <<q.params, RequestLineAndHeaderBytes(q.c.Request) + 2>>
                \in BagToSet(metrics.RequestSize)

\* C27: each recorded request carries one label tuple, used for the counter
\* and for every enabled histogram: in every state, also between the
\* collector operations of a request, each histogram's label tuples are
\* among the counter's; for a matched route the path label is the route
\* pattern, not the raw path.
C27_OneLabelTuplePerRequest ==
    /\ HistogramLabels(metrics.ResponseSize) \subseteq BagToSet(metrics.TotalRequests)
    /\ HistogramLabels(metrics.RequestSize) \subseteq BagToSet(metrics.TotalRequests)
    /\ HistogramLabels(metrics.Duration) \subseteq BagToSet(metrics.TotalRequests)
    /\ \A q \in Finished :
          Recorded(q)
          => /\ q.recorded = 1
             /\ q.params \in BagToSet(metrics.TotalRequests)
             /\ conf.recordResponseSize => q.params \in HistogramLabels(metrics.ResponseSize)
             /\ conf.recordRequestSize => q.params \in HistogramLabels(metrics.RequestSize)
             /\ conf.recordDuration => q.params \in HistogramLabels(metrics.Duration)
             /\ ~Unmatched(q) => q.params[3] = q.c.fullPath /\ q.params[3] # q.c.urlPath
    /\ BagCardinality(metrics.TotalRequests) >=
          SumCopies(log, { q \in Finished : Recorded(q) })

C27_Witness ==
    /\ conf = defaultConf
    /\ \E q \in Finished :
          /\ q.c.urlPath = "/users/42" /\ q.c.Writer.status = 200
          /\ q.params = <<"200", "GET", "/users/:id">>
          /\ CopiesIn(q.params, metrics.TotalRequests) = 1
          /\ CopiesIn(<<q.params, 11>>, metrics.ResponseSize) = 1

\* C28: handleUnmatchedPath returns the path it was given, returns a
\* non-empty route unchanged under every policy, returns an empty route
\* still empty when handleUnmatchedRoutes is false, and so changes the
\* route only when it is empty and handleUnmatchedRoutes is true.
C28_PathKeptRouteChangedOnlyWhenHandled ==
    fnOut.fn = "resolve"
    => /\ fnOut.path = fnIn.path
       /\ fnIn.routePattern # "" => fnOut.route = fnIn.routePattern
       /\ (fnIn.routePattern = "" /\ ~fnIn.conf.handleUnmatchedRoutes) => fnOut.route = ""
       /\ fnOut.route # fnIn.routePattern
          => fnIn.routePattern = "" /\ fnIn.conf.handleUnmatchedRoutes

C28_Witness ==
    /\ fnOut.fn = "resolve"
    /\ fnIn.routePattern = "/users/:id" /\ fnIn.path = "/some/path"
    /\ fnIn.conf.handleUnmatchedRoutes /\ fnIn.conf.groupUnmatchedRoutes
    /\ fnOut.route = "/users/:id" /\ fnOut.path = "/some/path"

FallbackLabels == {"path_4xx", "path_5xx", "missing_route"}

\* C29: under the default aggregator with handleUnmatchedRoutes true, no
\* request reaches the aggregator with an empty route and none is recorded
\* under "path_4xx", "path_5xx" or "missing_route".
C29_FallbackLabelsOnlyWhenHandlingOff ==
    (conf.pathAggregator = DefaultAggregator /\ conf.handleUnmatchedRoutes)
    => /\ \A q \in Served : q.route # ""
       /\ { params[3] : params \in AllLabels } \cap FallbackLabels = {}

C29_Witness ==
    /\ conf.pathAggregator = DefaultAggregator /\ conf.handleUnmatchedRoutes
    /\ \E q \in Finished :
          /\ Unmatched(q) /\ Recorded(q) /\ q.c.Writer.status = 404
          /\ q.route = "/unmatched/*" /\ q.params[3] = "/unmatched/*"

====
